---- MODULE Spec2Model ----
(***************************************************************************)
(* Capability discovery and polling worker of cl_server_compute.           *)
(*                                                                         *)
(*   - CapabilityManager (src/src/compute/capability_manager.py): the      *)
(*     aggregator's cache, its message callback and its two queries.       *)
(*   - CapabilityBroadcaster (src/src/compute/capability_broadcaster.py):  *)
(*     the worker's advertiser.                                            *)
(*   - ComputeWorker and signal_handler (src/src/compute/worker.py): the   *)
(*     main loop, the heartbeat task and the two-stage shutdown.           *)
(*                                                                         *)
(* Two specifications share the variables:                                 *)
(*   SpecAgg  the aggregator alone, fed every topic/payload of a bounded   *)
(*            universe through on_message;                                 *)
(*   Spec     one worker process, the broker's retained message and        *)
(*            in-order delivery queue, and the aggregator behind it.       *)
(***************************************************************************)
EXTENDS Integers, Sequences, FiniteSets, TLC

VARIABLES
    prefix,              \* Config.CAPABILITY_TOPIC_PREFIX split at "/"
    capabilities_cache,  \* CapabilityManager.capabilities_cache (a dict)
    manager,             \* "none" | "subscribed" | "degraded"
    last_call,           \* the arguments and handler of the last on_message call
    pre_cache,           \* capabilities_cache as it was before the last on_message call
    pc,                  \* position of the main task (construction, then ComputeWorker.run)
    heartbeat_task,      \* "none" | "created" | "sleeping" | "done"
    cancel_called,       \* heartbeat_task.cancel() was called
    shutdown_event,      \* worker.shutdown_event
    shutdown_signal_count, \* worker.shutdown_signal_count
    exit_status,         \* "running" | "0" | "1": how the process ended
    outcome,             \* how the last run_once call ended
    active_tasks,        \* ComputeWorker.active_tasks
    is_idle,             \* CapabilityBroadcaster.is_idle
    broadcaster,         \* CapabilityBroadcaster.broadcaster: "unset" | "none" | "mqtt"
                         \* ("absent": no CapabilityBroadcaster object yet)
    will,                \* the last will registered with the broker for the worker's topic
    retained,            \* the broker's retained payload on the worker's topic
    queue,               \* payloads on their way from the broker to on_message
    success,             \* what the transport returned to the last publish() or clear()
    trace,               \* the main loop's publishes and run_once start/end, this iteration
    task_types,          \* the task_types argument of the last run_once call
    issued,              \* the last advertiser call made: "none" | "publish" | "clear"
    sent,                \* the last call made on the transport and its arguments
    clear_count,         \* calls of CapabilityBroadcaster.clear()
    teardown_count,      \* calls of shutdown_broadcaster()
    supported_tasks,     \* the supported_tasks argument of ComputeWorker()
    config_tasks,        \* Config.WORKER_SUPPORTED_TASKS
    plugin_types,        \* what library_worker.get_supported_task_types() returns
    requested_tasks,     \* requested_tasks as __init__ resolved it
    raised,              \* the RuntimeError of __init__, or "none"
    instance,            \* _capability_manager_instance: NoInstance (None) or the
                         \* index in managers of the CapabilityManager it refers to
    manager_lock,        \* _manager_lock: "free" or the thread holding it
    managers,            \* the CapabilityManager objects constructed, in order
    tpc,                 \* per thread: where it is in get_/close_capability_manager
    tret,                \* per thread: what its last get_capability_manager returned
    top,                 \* per thread: the function it called last
    calls,               \* calls made by the threads
    closes,              \* calls of close_capability_manager made
    overlap,             \* some call began while another thread was inside a call
    cache_lock,          \* CapabilityManager.cache_lock: "free" or its holder
    wpc,                 \* the transport's thread: where it is in on_message
    wmsg,                \* the topic and payload of the on_message call in progress
    qpc,                 \* per thread: where it is in a query of the cache
    qop,                 \* per thread: the query it called last
    qtodo,               \* per thread: cache entries its loop has still to visit
    qacc,                \* per thread: the aggregated dict of its loop so far
    qres,                \* per thread: what its last query returned
    seen                 \* per thread: the cache states that existed during its query

singletonVars == <<instance, manager_lock, managers, tpc, tret, top, calls,
                   closes, overlap>>
lockVars == <<cache_lock, wpc, wmsg, qpc, qop, qtodo, qacc, qres, seen>>
serviceVars == <<singletonVars, lockVars>>
aggVars == <<prefix, capabilities_cache, manager, last_call, pre_cache,
             serviceVars>>
ctorVars == <<supported_tasks, config_tasks, plugin_types, requested_tasks, raised>>
workerVars == <<pc, heartbeat_task, cancel_called, shutdown_event,
                shutdown_signal_count, exit_status, outcome, active_tasks, is_idle,
                broadcaster, will, success, trace, task_types, issued, sent, clear_count,
                teardown_count, ctorVars>>
brokerVars == <<retained, queue>>
vars == <<aggVars, workerVars, brokerVars>>

----------------------------------------------------------------------------
(* Bounds and universes *)

\* longest capabilities list of a delivered advertisement (SpecAgg)
MaxCaps == 2
\* most payloads in flight between the broker and the aggregator (Spec)
MaxQueue == 2
\* most signals the operator sends to the worker process (Spec)
MaxSignals == 2

\* longest list of task types given to ComputeWorker() (SpecCtor)
MaxTasks == 2
\* most calls the threads make of get_capability_manager,
\* close_capability_manager and disconnect together (SpecSingleton)
MaxCalls == 4
MaxServiceCalls == 2

Threads == {"t1", "t2"}

WorkerIds == {"w1", "w2"}
TaskTypes == {"resize", "convert"}
IdleCounts == {0, 1}
Times == {1000}
Prefixes == {<<"workers">>, <<"inference", "workers">>}

Range(s) == {s[i] : i \in 1..Len(s)}

SeqsUpTo(S, n) == UNION {[1..k -> S] : k \in 0..n}

\* an optional Python list: None, or a list of items
NoneList == [is_none |-> TRUE, items |-> <<>>]
List(xs) == [is_none |-> FALSE, items |-> xs]
\* the truth value Python gives it: None and [] are false
Truthy(l) == ~l.is_none /\ l.items # <<>>
\* set(l)
Set(l) == Range(l.items)

\* the task types of the construction inputs: those the worker of Spec
\* serves and one more
PluginTypes == TaskTypes \cup {"hash"}
OptionalLists == {NoneList} \cup {List(xs) : xs \in SeqsUpTo(PluginTypes, MaxTasks)}

----------------------------------------------------------------------------
(* Wire payloads.  A payload is a string; the model keeps what the parser  *)
(* looks at: whether it is empty, whitespace, not JSON at all, or a JSON   *)
(* object, and for an object which keys it has and the JSON type and value *)
(* of each.                                                                *)

FieldNames == {"id", "capabilities", "idle_count", "timestamp"}

Payload(kind, present, id, caps_t, caps, idle_t, idle, ts) ==
    [kind |-> kind, present |-> present, id |-> id, caps_t |-> caps_t,
     capabilities |-> caps, idle_t |-> idle_t, idle_count |-> idle,
     timestamp |-> ts]

EmptyPayload == Payload("empty", {}, "", "list", <<>>, "int", 0, 0)
BlankPayload == Payload("blank", {}, "", "list", <<>>, "int", 0, 0)
GarbagePayload == Payload("garbage", {}, "", "list", <<>>, "int", 0, 0)

\* json.dumps(capabilities_msg): an object with the four keys, the
\* capabilities as a JSON array and the two numbers as JSON integers
JsonDumps(msg) ==
    Payload("json", FieldNames, msg.id, "list", msg.capabilities,
            "int", msg.idle_count, msg.timestamp)

CapabilityMessage(id, caps, idle, ts) ==
    [id |-> id, capabilities |-> caps, idle_count |-> idle, timestamp |-> ts]

\* CapabilityMessage.model_validate_json(payload), pydantic's default (lax)
\* mode: every field is required, capabilities must be an array of strings,
\* idle_count an integer or a string of digits (coerced).  Any failure,
\* invalid JSON included, raises pydantic's ValidationError.
ModelValidateJson(p) ==
    LET err == IF p.kind # "json" THEN "ValidationError"
               ELSE IF p.present # FieldNames THEN "ValidationError"
               ELSE IF p.caps_t # "list" THEN "ValidationError"
               ELSE IF p.idle_t \notin {"int", "str"} THEN "ValidationError"
               ELSE "none"
    IN [raised |-> err,
        data |-> CapabilityMessage(p.id, p.capabilities, p.idle_count, p.timestamp)]

\* a call on the transport: publish_retained(topic=, payload=, qos=) or
\* clear_retained(topic), which names no payload and no qos (qos -1 here)
TransportCall(method, topic, payload, qos) ==
    [method |-> method, topic |-> topic, payload |-> payload, qos |-> qos]
NoSend == TransportCall("none", <<>>, EmptyPayload, -1)

\* not payload or payload.strip() == ""
IsBlank(p) == p.kind \in {"empty", "blank"}

----------------------------------------------------------------------------
(* CapabilityManager *)

EmptyDict == [x \in {} |-> 0]

\* a tombstone left in place of the removed key
DictPopTombstone(d, k) ==
    [x \in DOMAIN d \cup {k} |->
        IF x = k THEN [id |-> k, capabilities |-> <<>>, idle_count |-> 0, timestamp |-> 0]
        ELSE d[x]]

\* a removal that empties the whole cache
DictPopClearing(d, k) == EmptyDict

\* self.capabilities_cache.pop(worker_id, None)
DictPop(d, k) == [x \in DOMAIN d \ {k} |-> d[x]]

\* an update that keeps the capabilities the key already had
DictSetMerging(d, k, v) ==
    [x \in DOMAIN d \cup {k} |->
        IF x # k THEN d[x]
        ELSE IF k \in DOMAIN d
             THEN [v EXCEPT !.capabilities = d[k].capabilities \o v.capabilities]
             ELSE v]

\* an update that adds the new idle_count to the one the key already had
DictSetAccumulating(d, k, v) ==
    [x \in DOMAIN d \cup {k} |->
        IF x # k THEN d[x]
        ELSE IF k \in DOMAIN d
             THEN [v EXCEPT !.idle_count = d[k].idle_count + v.idle_count]
             ELSE v]

\* self.capabilities_cache[worker_id] = data
DictSet(d, k, v) == [x \in DOMAIN d \cup {k} |-> IF x = k THEN v ELSE d[x]]

\* only the inner except clause
CaughtInnerOnly(exc) == IF exc = "JSONDecodeError" THEN "caught_json" ELSE "escaped"

\* the except clauses around the parse, innermost first: json.JSONDecodeError,
\* then Exception, which takes every other error
Caught(exc) == IF exc = "JSONDecodeError" THEN "caught_json" ELSE "caught_outer"

\* on_message(topic, payload): the cache it leaves and the way it returned
\* ("ignored_topic", "removed", "stored", or the except clause that caught
\* the parse error; "escaped" is an exception leaving on_message)
OnMessage(cache, topic, payload) ==
    IF Len(topic) < 3
    THEN [cache |-> cache, outcome |-> "ignored_topic"]
    ELSE LET worker_id == topic[Len(topic)]
         IN IF IsBlank(payload)
            THEN [cache |-> DictPop(cache, worker_id), outcome |-> "removed"]
            ELSE LET parsed == ModelValidateJson(payload)
                 IN IF parsed.raised = "none"
                    THEN [cache |-> DictSet(cache, worker_id, parsed.data),
                          outcome |-> "stored"]
                    ELSE [cache |-> cache, outcome |-> Caught(parsed.raised)]

\* for capability in capabilities: aggregated[capability] += inc
RECURSIVE AddCapabilities(_, _, _)
AddCapabilities(aggregated, capabilities, inc) ==
    IF capabilities = <<>> THEN aggregated
    ELSE LET capability == Head(capabilities)
             start == IF capability \in DOMAIN aggregated
                      THEN aggregated
                      ELSE DictSet(aggregated, capability, 0)
         IN AddCapabilities(DictSet(start, capability, start[capability] + inc),
                            Tail(capabilities), inc)

\* get_cached_capabilities(): the loop over the cache entries
RECURSIVE IdleLoop(_, _, _)
IdleLoop(cache, todo, aggregated) ==
    IF todo = {} THEN aggregated
    ELSE LET w == CHOOSE x \in todo : TRUE
         IN IdleLoop(cache, todo \ {w},
                     AddCapabilities(aggregated, cache[w].capabilities,
                                     cache[w].idle_count))

GetCachedCapabilities(cache) == IdleLoop(cache, DOMAIN cache, EmptyDict)

\* get_worker_count_by_capability(): the loop over the cache entries
RECURSIVE CountLoop(_, _, _)
CountLoop(cache, todo, total_workers) ==
    IF todo = {} THEN total_workers
    ELSE LET w == CHOOSE x \in todo : TRUE
         IN CountLoop(cache, todo \ {w},
                      AddCapabilities(total_workers, cache[w].capabilities, 1))

GetWorkerCountByCapability(cache) == CountLoop(cache, DOMAIN cache, EmptyDict)

\* f"{Config.CAPABILITY_TOPIC_PREFIX}/{worker_id}", split at "/"
Topic(pfx, worker_id) == pfx \o <<worker_id>>

NoCall == [topic |-> <<>>, payload |-> EmptyPayload, outcome |-> "none"]

\* The broker hands one payload on a topic to the subscribed callback.
Deliver(topic, payload) ==
    LET r == OnMessage(capabilities_cache, topic, payload)
    IN /\ capabilities_cache' = r.cache
       /\ pre_cache' = capabilities_cache
       /\ last_call' = [topic |-> topic, payload |-> payload, outcome |-> r.outcome]

----------------------------------------------------------------------------
(* SpecAgg: the aggregator fed every payload of the universe *)

CapLists == SeqsUpTo(TaskTypes, MaxCaps)

\* advertisements that parse: a producer's output for every capability list
\* and idle flag, one from another producer (its own id, a later timestamp,
\* an idle_count above 1), and one whose idle_count is a digit string
ValidPayloads(w) ==
    {JsonDumps(CapabilityMessage(w, c, i, t)) :
        c \in CapLists, i \in IdleCounts, t \in Times}
    \cup {JsonDumps(CapabilityMessage("elsewhere", <<"resize", "convert">>, 2, 2000)),
          Payload("json", FieldNames, w, "list", <<"resize">>, "str", 1, 1000)}

\* payloads that do not parse: not JSON, a missing key, an ill-typed value
InvalidPayloads(w) ==
    {GarbagePayload}
    \cup {Payload("json", FieldNames \ {f}, w, "list", <<"resize">>, "int", 1, 1000) :
            f \in FieldNames}
    \cup {Payload("json", FieldNames, w, "str", <<>>, "int", 1, 1000),
          Payload("json", FieldNames, w, "list", <<"resize">>, "null", 0, 1000)}

PayloadUniverse(w) ==
    {EmptyPayload, BlankPayload} \cup ValidPayloads(w) \cup InvalidPayloads(w)

\* _capability_manager_instance: CapabilityManager | None = None
NoInstance == 0

\* no thread has called get_capability_manager or close_capability_manager
SingletonIdle ==
    /\ instance = NoInstance /\ manager_lock = "free" /\ managers = <<>>
    /\ tpc = [t \in Threads |-> "idle"]
    /\ tret = [t \in Threads |-> NoInstance]
    /\ top = [t \in Threads |-> "none"]
    /\ calls = 0 /\ closes = 0 /\ overlap = FALSE

\* no on_message call and no query in progress
QueryIdle ==
    /\ cache_lock = "free" /\ wpc = "idle" /\ wmsg = NoCall
    /\ qpc = [t \in Threads |-> "idle"]
    /\ qop = [t \in Threads |-> "none"]
    /\ qtodo = [t \in Threads |-> {}]
    /\ qacc = [t \in Threads |-> EmptyDict]
    /\ qres = [t \in Threads |-> EmptyDict]
    /\ seen = [t \in Threads |-> {}]

\* no worker process in SpecAgg
WorkerIdle ==
    /\ pc = "off" /\ heartbeat_task = "none" /\ cancel_called = FALSE
    /\ shutdown_event = FALSE /\ shutdown_signal_count = 0
    /\ exit_status = "running" /\ outcome = "none" /\ active_tasks = {}
    /\ is_idle = TRUE /\ broadcaster = "unset" /\ will = FALSE
    /\ success = FALSE /\ trace = <<>> /\ task_types = <<>> /\ issued = "none" /\ sent = NoSend
    /\ clear_count = 0 /\ teardown_count = 0
    /\ retained = EmptyPayload /\ queue = <<>>
    /\ supported_tasks = NoneList /\ config_tasks = NoneList
    /\ plugin_types = <<>> /\ requested_tasks = {} /\ raised = "none"

InitAgg ==
    /\ prefix \in Prefixes
    /\ capabilities_cache = EmptyDict
    /\ pre_cache = EmptyDict
    /\ manager = "subscribed"
    /\ last_call = NoCall
    /\ SingletonIdle
    /\ QueryIdle
    /\ WorkerIdle

\* a message on a topic matching the subscription <prefix>/+
AggOnMessage ==
    \E w \in WorkerIds : \E p \in PayloadUniverse(w) :
        /\ Deliver(Topic(prefix, w), p)
        /\ UNCHANGED <<prefix, manager, serviceVars, workerVars, brokerVars>>

\* on_message called with a topic of two segments, whatever the subscription
AggOnMessageInvalidTopic ==
    \E w \in WorkerIds :
    \E p \in {EmptyPayload, GarbagePayload,
               JsonDumps(CapabilityMessage(w, <<"resize">>, 1, 1000))} :
        /\ Deliver(<<"invalid", "topic">>, p)
        /\ UNCHANGED <<prefix, manager, serviceVars, workerVars, brokerVars>>

NextAgg == AggOnMessage \/ AggOnMessageInvalidTopic

SpecAgg == InitAgg /\ [][NextAgg]_vars

----------------------------------------------------------------------------
(* CapabilityBroadcaster and the broker behind it *)

\* the worker process of Spec
WorkerId == "w1"

\* list(self.active_tasks): the set in some fixed order, each type once
RECURSIVE SetToList(_)
SetToList(S) ==
    IF S = {} THEN <<>>
    ELSE LET x == CHOOSE y \in S : TRUE IN <<x>> \o SetToList(S \ {x})

\* qos=1 of publish_retained and set_will
PublishQos == 1

\* an advertiser that publishes on the prefix itself
AdvertiserTopicWithoutId == prefix

\* self.topic = f"{Config.CAPABILITY_TOPIC_PREFIX}/{worker_id}"
AdvertiserTopic == Topic(prefix, WorkerId)

\* an advertiser that always reports idle
IdleCountAlwaysOne(flag) == 1

\* 1 if self.is_idle else 0
IdleCount(flag) == IF flag THEN 1 ELSE 0

\* a publish() that lists every capability twice
PublishedPayloadRepeats(worker_id, tasks, flag, t) ==
    JsonDumps(CapabilityMessage(worker_id, SetToList(tasks) \o SetToList(tasks),
                                IdleCount(flag), t))

\* publish(): json.dumps of id, list(active_tasks), 1 if is_idle else 0 and
\* the time
PublishedPayload(worker_id, tasks, flag, t) ==
    JsonDumps(CapabilityMessage(worker_id, SetToList(tasks), IdleCount(flag), t))

\* The broker takes a payload on the worker's topic: it becomes the retained
\* payload (an empty one clears it) and is forwarded to the subscriber.
BrokerPublish(p) ==
    /\ retained' = p
    /\ queue' = IF manager = "subscribed" THEN Append(queue, p) ELSE queue

BrokerHasRoom == manager = "subscribed" => Len(queue) < MaxQueue

\* a publish() that does not test self.broadcaster
PublishUnguarded(bc, flag) ==
    /\ issued' = "publish"
    /\ \E ok \in BOOLEAN : \E t \in Times :
         LET payload == PublishedPayload(WorkerId, active_tasks, flag, t)
         IN /\ sent' = TransportCall("publish_retained", AdvertiserTopic,
                                     payload, PublishQos)
            /\ success' = ok
            /\ IF ok THEN BrokerHasRoom /\ BrokerPublish(payload)
               ELSE UNCHANGED brokerVars

\* CapabilityBroadcaster.publish() with broadcaster bc and is_idle flag:
\* nothing without a broadcaster; otherwise publish_retained, whose result
\* is only logged
Publish(bc, flag) ==
    /\ issued' = "publish"
    /\ IF bc # "mqtt"
       THEN UNCHANGED <<brokerVars, success, sent>>
       ELSE \E ok \in BOOLEAN : \E t \in Times :
              LET payload == PublishedPayload(WorkerId, active_tasks, flag, t)
              IN /\ sent' = TransportCall("publish_retained", AdvertiserTopic,
                                          payload, PublishQos)
                 /\ success' = ok
                 /\ IF ok THEN BrokerHasRoom /\ BrokerPublish(payload)
                    ELSE UNCHANGED brokerVars

\* CapabilityBroadcaster.clear(): nothing without a broadcaster; otherwise
\* clear_retained, whose result is only logged
Clear ==
    /\ issued' = "clear"
    /\ clear_count' = clear_count + 1
    /\ IF broadcaster # "mqtt"
       THEN UNCHANGED <<brokerVars, success, sent>>
       ELSE \E ok \in BOOLEAN :
              /\ sent' = TransportCall("clear_retained", AdvertiserTopic,
                                       EmptyPayload, -1)
              /\ success' = ok
              /\ IF ok THEN BrokerHasRoom /\ BrokerPublish(EmptyPayload)
                 ELSE UNCHANGED brokerVars

----------------------------------------------------------------------------
(* ComputeWorker: the main task, the heartbeat task, the signal handler.   *)
(* The tasks are coroutines of one event loop: a step runs from one await  *)
(* to the next, and the heartbeat runs only while the main task is         *)
(* suspended (in run_once, in a sleep, or awaiting the heartbeat).         *)
(* Signals are taken where the process spends its time: during             *)
(* construction, during run_once and while the main task is suspended.     *)

\* a run_once that is given every task type the model knows
RunOnceTaskTypesAll == SetToList(TaskTypes)

\* task_types = list(self.active_tasks)
RunOnceTaskTypes == SetToList(active_tasks)

PubEvent(flag) == IF IdleCount(flag) = 0 THEN "publish_busy" ELSE "publish_idle"

\* a worker that does not mark itself busy
BusyFlagLeftIdle == TRUE

\* self.capability_broadcaster.is_idle = False
BusyFlag == FALSE

\* a worker that takes the busy flag back when its publish fails
ProcessNextJobBeginRevertsOnFailure ==
    /\ Publish(broadcaster, BusyFlag)
    /\ is_idle' = (BusyFlag \/ ~success')
    /\ trace' = <<PubEvent(BusyFlag), "run_once_start">>
    /\ task_types' = RunOnceTaskTypes

\* _process_next_job up to the await of run_once
ProcessNextJobBegin ==
    /\ is_idle' = BusyFlag
    /\ Publish(broadcaster, BusyFlag)
    /\ trace' = <<PubEvent(BusyFlag), "run_once_start">>
    /\ task_types' = RunOnceTaskTypes

\* a finally clause that marks the worker idle only if its publish went through
ProcessNextJobFinallyIdleIfPublished ==
    /\ Publish(broadcaster, TRUE)
    /\ is_idle' = success'
    /\ trace' = trace \o <<"run_once_end", PubEvent(TRUE)>>
    /\ UNCHANGED task_types

\* the finally clause of _process_next_job, run however run_once ended
ProcessNextJobFinally ==
    /\ is_idle' = TRUE
    /\ Publish(broadcaster, TRUE)
    /\ trace' = trace \o <<"run_once_end", PubEvent(TRUE)>>
    /\ UNCHANGED task_types

\* a loop that an exception of run_once leaves
AfterJobExceptionEscapes(o) ==
    CASE o = "true" -> "loop"
      [] o = "false" -> "sleep"
      [] OTHER -> "await_hb"

\* a loop that sleeps after every iteration
AfterJobAlwaysSleeps(o) ==
    CASE o \in {"true", "false", "exception"} -> "sleep"
      [] OTHER -> "await_hb"

\* where run() goes after _process_next_job: again at once after a job,
\* a sleep after no job or an error, out of the loop after a cancellation
AfterJob(o) ==
    CASE o = "true" -> "loop"
      [] o \in {"false", "exception"} -> "sleep"
      [] OTHER -> "await_hb"

\* a shutdown that leaves the heartbeat alone
CancelHeartbeatSkipped == UNCHANGED cancel_called

\* heartbeat_task.cancel()
CancelHeartbeat == cancel_called' = TRUE

\* a shutdown that does not wait for the heartbeat
AwaitHeartbeatSkipped == TRUE

\* await heartbeat_task returns (or raises CancelledError) once the task is done
AwaitHeartbeat == heartbeat_task = "done"

\* a clear() issued inside the loop, which then goes on
AfterClearLoopsOn == "loop"

\* clear() is the last statement of run()
AfterClear == "done"

Suspended == pc \in {"run_once", "sleep", "await_hb"}

Init ==
    /\ prefix \in Prefixes
    /\ SingletonIdle
    /\ QueryIdle
    /\ capabilities_cache = EmptyDict
    /\ pre_cache = EmptyDict
    /\ manager = "none"
    /\ last_call = NoCall
    /\ pc = "start" /\ heartbeat_task = "none" /\ cancel_called = FALSE
    /\ shutdown_event = FALSE /\ shutdown_signal_count = 0
    /\ exit_status = "running" /\ outcome = "none"
    /\ active_tasks \in (SUBSET TaskTypes) \ {{}}
    /\ is_idle = TRUE /\ broadcaster = "unset" /\ will = FALSE
    /\ success = FALSE /\ trace = <<>> /\ task_types = <<>> /\ issued = "none" /\ sent = NoSend
    /\ clear_count = 0 /\ teardown_count = 0
    /\ retained = EmptyPayload /\ queue = <<>>
    /\ supported_tasks = NoneList /\ config_tasks = NoneList
    /\ plugin_types = SetToList(active_tasks)
    /\ requested_tasks = active_tasks /\ raised = "none"

\* run(): init(), the initial publish(), create_task(_heartbeat_task())
Start ==
    /\ pc = "start"
    /\ \E bc \in {"none", "mqtt"} :
         /\ broadcaster' = bc
         /\ will' = (bc = "mqtt")
         /\ Publish(bc, is_idle)
    /\ heartbeat_task' = "created"
    /\ pc' = "loop"
    /\ UNCHANGED <<cancel_called, shutdown_event, shutdown_signal_count,
                   exit_status, outcome, active_tasks, ctorVars, is_idle, trace, task_types,
                   clear_count, teardown_count, aggVars>>

\* a loop that does not test the shutdown flag
LoopEnterIgnoresFlag ==
    /\ pc = "loop"
    /\ ProcessNextJobBegin
    /\ pc' = "run_once"
    /\ UNCHANGED cancel_called
    /\ UNCHANGED <<heartbeat_task, shutdown_event, shutdown_signal_count,
                   exit_status, outcome, active_tasks, ctorVars, broadcaster, will,
                   clear_count, teardown_count, aggVars>>

\* while not shutdown_event.is_set(): enter _process_next_job, or leave the
\* loop for the finally clause of run()
LoopEnter ==
    /\ pc = "loop"
    /\ IF shutdown_event
       THEN /\ CancelHeartbeat
            /\ pc' = "await_hb"
            /\ UNCHANGED <<is_idle, trace, task_types, issued, sent, success, brokerVars>>
       ELSE /\ ProcessNextJobBegin
            /\ pc' = "run_once"
            /\ UNCHANGED cancel_called
    /\ UNCHANGED <<heartbeat_task, shutdown_event, shutdown_signal_count,
                   exit_status, outcome, active_tasks, ctorVars, broadcaster, will,
                   clear_count, teardown_count, aggVars>>

\* run_once returns True or False, raises an Exception or CancelledError
RunOnceEnd ==
    /\ pc = "run_once"
    /\ \E o \in {"true", "false", "exception", "cancelled"} :
         /\ outcome' = o
         /\ pc' = AfterJob(o)
         /\ IF o = "cancelled" THEN CancelHeartbeat ELSE UNCHANGED cancel_called
    /\ ProcessNextJobFinally
    /\ UNCHANGED <<heartbeat_task, shutdown_event, shutdown_signal_count,
                   exit_status, active_tasks, ctorVars, broadcaster, will,
                   clear_count, teardown_count, aggVars>>

\* await asyncio.sleep(self.poll_interval) returns
SleepEnd ==
    /\ pc = "sleep"
    /\ pc' = "loop"
    /\ UNCHANGED <<heartbeat_task, cancel_called, shutdown_event,
                   shutdown_signal_count, exit_status, outcome, active_tasks, ctorVars,
                   is_idle, broadcaster, will, success, trace, task_types, issued, sent,
                   clear_count, teardown_count, aggVars, brokerVars>>

\* the end of run()'s finally clause, clear(), and run_worker's finally
\* clause, shutdown_broadcaster(); a pending SystemExit then ends the
\* process with status 1
Finish ==
    /\ pc = "await_hb"
    /\ AwaitHeartbeat
    /\ Clear
    /\ teardown_count' = teardown_count + 1
    /\ pc' = AfterClear
    /\ exit_status' = IF shutdown_signal_count >= 2 THEN "1" ELSE "0"
    /\ UNCHANGED <<heartbeat_task, cancel_called, shutdown_event,
                   shutdown_signal_count, outcome, active_tasks, ctorVars, is_idle,
                   broadcaster, will, trace, task_types, aggVars>>


\* _heartbeat_task runs for the first time: the while test, then the sleep
HeartbeatStart ==
    /\ heartbeat_task = "created"
    /\ Suspended
    /\ ~cancel_called
    /\ heartbeat_task' = IF shutdown_event THEN "done" ELSE "sleeping"
    /\ UNCHANGED <<pc, cancel_called, shutdown_event, shutdown_signal_count,
                   exit_status, outcome, active_tasks, ctorVars, is_idle, broadcaster,
                   will, success, trace, task_types, issued, sent, clear_count, teardown_count,
                   aggVars, brokerVars>>

\* a heartbeat that goes on publishing after shutdown was requested
HeartbeatWakeIgnoresFlag ==
    /\ heartbeat_task = "sleeping"
    /\ Suspended
    /\ ~cancel_called
    /\ heartbeat_task' = "sleeping"
    /\ Publish(broadcaster, is_idle)
    /\ UNCHANGED <<pc, cancel_called, shutdown_event, shutdown_signal_count,
                   exit_status, outcome, active_tasks, ctorVars, is_idle, broadcaster,
                   will, trace, task_types, clear_count, teardown_count, aggVars>>

\* a heartbeat that advertises the worker as idle whatever it is doing
HeartbeatWakeAdvertisesIdle ==
    /\ heartbeat_task = "sleeping"
    /\ Suspended
    /\ ~cancel_called
    /\ IF shutdown_event
       THEN /\ heartbeat_task' = "done"
            /\ UNCHANGED <<issued, sent, success, brokerVars>>
       ELSE /\ heartbeat_task' = "sleeping"
            /\ Publish(broadcaster, TRUE)
    /\ UNCHANGED <<pc, cancel_called, shutdown_event, shutdown_signal_count,
                   exit_status, outcome, active_tasks, ctorVars, is_idle, broadcaster,
                   will, trace, task_types, clear_count, teardown_count, aggVars>>

\* the heartbeat's sleep returns: publish unless shutdown is set, then the
\* while test (the same flag: no await in between)
HeartbeatWake ==
    /\ heartbeat_task = "sleeping"
    /\ Suspended
    /\ ~cancel_called
    /\ IF shutdown_event
       THEN /\ heartbeat_task' = "done"
            /\ UNCHANGED <<issued, sent, success, brokerVars>>
       ELSE /\ heartbeat_task' = "sleeping"
            /\ Publish(broadcaster, is_idle)
    /\ UNCHANGED <<pc, cancel_called, shutdown_event, shutdown_signal_count,
                   exit_status, outcome, active_tasks, ctorVars, is_idle, broadcaster,
                   will, trace, task_types, clear_count, teardown_count, aggVars>>

\* CancelledError reaches the heartbeat, before its first step or in its
\* sleep; the except clause ends the task
HeartbeatCancelled ==
    /\ heartbeat_task \in {"created", "sleeping"}
    /\ Suspended
    /\ cancel_called
    /\ heartbeat_task' = "done"
    /\ UNCHANGED <<pc, cancel_called, shutdown_event, shutdown_signal_count,
                   exit_status, outcome, active_tasks, ctorVars, is_idle, broadcaster,
                   will, success, trace, task_types, issued, sent, clear_count, teardown_count,
                   aggVars, brokerVars>>

\* sys.exit(1) in the handler: SystemExit is raised in the main thread.
\* During construction nothing encloses it.  Otherwise it unwinds the main
\* task (directly, or as the cancellation asyncio.run sends every task when
\* the exception leaves the event loop): the finally clause of
\* _process_next_job, then the finally clause of run(), which still awaits
\* the heartbeat and calls clear().  A further SystemExit during that
\* unwinding ends the process where it is.
SystemExit ==
    CASE pc = "start" ->
            /\ pc' = "done"
            /\ exit_status' = "1"
            /\ UNCHANGED <<cancel_called, outcome, is_idle, success, trace, task_types,
                           issued, sent, brokerVars>>
      [] pc = "run_once" ->
            /\ outcome' = "SystemExit"
            /\ ProcessNextJobFinally
            /\ CancelHeartbeat
            /\ pc' = "await_hb"
            /\ UNCHANGED exit_status
      [] pc = "sleep" ->
            /\ CancelHeartbeat
            /\ pc' = "await_hb"
            /\ UNCHANGED <<exit_status, outcome, is_idle, success, trace, task_types,
                           issued, sent, brokerVars>>
      [] OTHER ->
            /\ IF shutdown_signal_count >= 2
               THEN pc' = "done" /\ exit_status' = "1" /\ UNCHANGED cancel_called
               ELSE CancelHeartbeat /\ UNCHANGED <<pc, exit_status>>
            /\ UNCHANGED <<outcome, is_idle, success, trace, task_types, issued, sent, brokerVars>>

\* a handler that only sets the flag, whichever signal it is
SignalHandlerSetsEventOnly ==
    /\ exit_status = "running"
    /\ pc \in {"start", "run_once", "sleep", "await_hb"}
    /\ shutdown_signal_count < MaxSignals
    /\ shutdown_signal_count' = shutdown_signal_count + 1
    /\ shutdown_event' = TRUE
    /\ UNCHANGED <<pc, cancel_called, exit_status, outcome, is_idle,
                   success, trace, task_types, issued, sent, brokerVars>>
    /\ UNCHANGED <<heartbeat_task, active_tasks, ctorVars, broadcaster, will,
                   clear_count, teardown_count, aggVars>>

\* a handler whose first signal already raises into the main task
SignalHandlerInterrupts ==
    /\ exit_status = "running"
    /\ pc \in {"start", "run_once", "sleep", "await_hb"}
    /\ shutdown_signal_count < MaxSignals
    /\ shutdown_signal_count' = shutdown_signal_count + 1
    /\ shutdown_event' = TRUE
    /\ SystemExit
    /\ UNCHANGED <<heartbeat_task, active_tasks, ctorVars, broadcaster, will,
                   clear_count, teardown_count, aggVars>>

\* signal_handler(signum, frame)
SignalHandler ==
    /\ exit_status = "running"
    /\ pc \in {"start", "run_once", "sleep", "await_hb"}
    /\ shutdown_signal_count < MaxSignals
    /\ shutdown_signal_count' = shutdown_signal_count + 1
    /\ IF shutdown_signal_count' = 1
       THEN /\ shutdown_event' = TRUE
            /\ UNCHANGED <<pc, cancel_called, exit_status, outcome, is_idle,
                           success, trace, task_types, issued, sent, brokerVars>>
       ELSE /\ SystemExit
            /\ UNCHANGED shutdown_event
    /\ UNCHANGED <<heartbeat_task, active_tasks, ctorVars, broadcaster, will,
                   clear_count, teardown_count, aggVars>>

\* a manager that is sent the topic's messages without a broadcaster
ManagerInitSubscribesAnyway ==
    /\ manager = "none"
    /\ \E bc \in {"none", "mqtt"} :
         manager' = IF bc = "mqtt" THEN "subscribed" ELSE "degraded"
    /\ queue' = IF retained.kind = "json" THEN <<retained>> ELSE <<>>
    /\ UNCHANGED <<prefix, capabilities_cache, last_call, pre_cache, retained,
                   serviceVars, workerVars>>

\* CapabilityManager(): with a broadcaster it subscribes to <prefix>/+ and
\* the broker sends the retained payload; without one nothing is subscribed
ManagerInit ==
    /\ manager = "none"
    /\ \E bc \in {"none", "mqtt"} :
         IF bc = "mqtt"
         THEN /\ manager' = "subscribed"
              /\ queue' = IF retained.kind = "json" THEN <<retained>> ELSE <<>>
         ELSE /\ manager' = "degraded"
              /\ UNCHANGED queue
    /\ UNCHANGED <<prefix, capabilities_cache, last_call, pre_cache, retained,
                   serviceVars, workerVars>>

\* the broker delivers the oldest payload in flight to on_message
BrokerDeliver ==
    /\ queue # <<>>
    /\ Deliver(Topic(prefix, WorkerId), Head(queue))
    /\ queue' = Tail(queue)
    /\ UNCHANGED <<prefix, manager, retained, serviceVars, workerVars>>

Next ==
    \/ Start
    \/ LoopEnter
    \/ RunOnceEnd
    \/ SleepEnd
    \/ Finish
    \/ HeartbeatStart
    \/ HeartbeatWake
    \/ HeartbeatCancelled
    \/ SignalHandler
    \/ ManagerInit
    \/ BrokerDeliver

Spec == Init /\ [][Next]_vars

----------------------------------------------------------------------------
(* The worker's end as the aggregator comes to see it, checked under       *)
(* SpecLive: Spec with the unclean end of the worker process, the broker   *)
(* publishing the last will, and weak fairness of every step that the      *)
(* event loop or the broker takes on its own.  Signals, the unclean end    *)
(* and the construction of the manager are the environment's: they may     *)
(* never happen.                                                           *)

\* the worker process is killed, or its connection drops, after run() has
\* called init(): no finally clause runs and no clean disconnect is made
Crash ==
    /\ exit_status = "running"
    /\ pc \in {"loop", "run_once", "sleep", "await_hb"}
    /\ pc' = "done"
    /\ exit_status' = "killed"
    /\ heartbeat_task' = "done"
    /\ UNCHANGED <<cancel_called, shutdown_event, shutdown_signal_count,
                   outcome, active_tasks, ctorVars, is_idle, broadcaster,
                   will, success, trace, task_types, issued, sent, clear_count,
                   teardown_count, aggVars, brokerVars>>

\* the broker finds the connection of a worker gone without a disconnect
\* and publishes the will set_will registered: the empty payload, retained
BrokerPublishWill ==
    /\ will
    /\ exit_status = "killed"
    /\ BrokerHasRoom
    /\ BrokerPublish(EmptyPayload)
    /\ will' = FALSE
    /\ UNCHANGED <<pc, heartbeat_task, cancel_called, shutdown_event,
                   shutdown_signal_count, exit_status, outcome, active_tasks,
                   ctorVars, is_idle, broadcaster, success, trace, task_types, issued,
                   sent, clear_count, teardown_count, aggVars>>

NextLive ==
    \/ Next
    \/ Crash
    \/ BrokerPublishWill

Fairness ==
    /\ WF_vars(Start)
    /\ WF_vars(LoopEnter)
    /\ WF_vars(RunOnceEnd)
    /\ WF_vars(SleepEnd)
    /\ WF_vars(Finish)
    /\ WF_vars(HeartbeatStart)
    /\ WF_vars(HeartbeatWake)
    /\ WF_vars(HeartbeatCancelled)
    /\ WF_vars(BrokerDeliver)
    /\ WF_vars(BrokerPublishWill)

SpecLive == Init /\ [][NextLive]_vars /\ Fairness

----------------------------------------------------------------------------
(* ComputeWorker construction, checked under SpecCtor: the constructor is  *)
(* applied to every supported_tasks argument, configured list and list of  *)
(* registered plugin types of a bounded universe, and run() follows where  *)
(* it succeeded.                                                           *)

\* a constructor that takes every requested type as active
IntersectionAsRequested(available, requested) == requested

\* available_tasks & requested_tasks
Intersection(available, requested) == available \cap requested

\* a constructor that falls back to the available types when the argument
\* is absent, whatever is configured
RequestedTasksSkipsConfig(supported, config, available) ==
    IF Truthy(supported) THEN Set(supported) ELSE available

\* requested_tasks: the argument, else the configured list, else all
\* available types
RequestedTasks(supported, config, available) ==
    IF Truthy(supported) THEN Set(supported)
    ELSE IF Truthy(config) THEN Set(config) ELSE available

\* a constructor with one message for every failure
DiagnosticSingle(requested, available) == "No task types specified"

\* the RuntimeError raised for an empty active set
Diagnostic(requested, available) ==
    IF requested # {} /\ available = {} THEN "No compute plugins found"
    ELSE IF requested # {} /\ available # {} THEN "No matching plugins found"
    ELSE "No task types specified"

InitCtor ==
    /\ prefix \in {<<"workers">>}
    /\ SingletonIdle
    /\ QueryIdle
    /\ capabilities_cache = EmptyDict
    /\ pre_cache = EmptyDict
    /\ manager = "none"
    /\ last_call = NoCall
    /\ pc = "new" /\ heartbeat_task = "none" /\ cancel_called = FALSE
    /\ shutdown_event = FALSE /\ shutdown_signal_count = 0
    /\ exit_status = "running" /\ outcome = "none"
    /\ active_tasks = {}
    /\ is_idle = TRUE /\ broadcaster = "absent" /\ will = FALSE
    /\ success = FALSE /\ trace = <<>> /\ task_types = <<>> /\ issued = "none" /\ sent = NoSend
    /\ clear_count = 0 /\ teardown_count = 0
    /\ retained = EmptyPayload /\ queue = <<>>
    /\ supported_tasks \in OptionalLists
    /\ config_tasks \in OptionalLists
    /\ plugin_types \in SeqsUpTo(PluginTypes, MaxTasks)
    /\ requested_tasks = {} /\ raised = "none"

\* ComputeWorker.__init__ as run_worker calls it: the active set, then the
\* RuntimeError that ends the process, or the CapabilityBroadcaster
ComputeWorkerInit ==
    /\ pc = "new"
    /\ LET available == Range(plugin_types)
           requested == RequestedTasks(supported_tasks, config_tasks, available)
           active == Intersection(available, requested)
       IN /\ requested_tasks' = requested
          /\ active_tasks' = active
          /\ IF active = {}
             THEN /\ raised' = Diagnostic(requested, available)
                  /\ pc' = "failed"
                  /\ exit_status' = "1"
                  /\ UNCHANGED <<broadcaster, is_idle>>
             ELSE /\ raised' = "none"
                  /\ pc' = "start"
                  /\ broadcaster' = "unset"
                  /\ is_idle' = TRUE
                  /\ UNCHANGED exit_status
    /\ UNCHANGED <<heartbeat_task, cancel_called, shutdown_event,
                   shutdown_signal_count, outcome, will, success, trace, task_types,
                   issued, sent, clear_count, teardown_count, supported_tasks,
                   config_tasks, plugin_types, aggVars, brokerVars>>

NextCtor ==
    \/ ComputeWorkerInit
    \/ Start

SpecCtor == InitCtor /\ [][NextCtor]_vars

----------------------------------------------------------------------------
(* The CapabilityManager singleton, checked under SpecSingleton: threads    *)
(* of the service call get_capability_manager, close_capability_manager    *)
(* and disconnect() on the manager they were given, in any interleaving.   *)
(* A step is one read or write of the module global, one lock operation,   *)
(* or one call made with the lock held.                                    *)

\* CapabilityManager(): the empty cache, the broadcaster get_broadcaster
\* gives, and the subscription made if there is one
NewManager(bc) ==
    [broadcaster |-> bc,
     subscriptions |-> IF bc = "mqtt" THEN 1 ELSE 0,
     connected |-> (bc = "mqtt"),
     cache |-> EmptyDict]

\* a disconnect() that also empties the cache
DisconnectClearsCache(m) ==
    [m EXCEPT !.connected = FALSE, !.cache = EmptyDict]

\* CapabilityManager.disconnect(): broadcaster.disconnect() if there is a
\* broadcaster; an exception of it is logged
Disconnect(m) ==
    IF m.broadcaster = "mqtt" THEN [m EXCEPT !.connected = FALSE] ELSE m

\* a get_capability_manager that constructs whenever it holds the lock
SecondCheckSkipped(i) == TRUE

\* if _capability_manager_instance is None, with _manager_lock held
SecondCheck(i) == i = NoInstance

\* a close_capability_manager without its test
CloseGuardAbsent(i) == TRUE

\* if _capability_manager_instance is not None
CloseGuard(i) == i # NoInstance

InCall(t) == tpc[t] \notin {"idle", "raised"}

\* a thread outside any call makes its next call
BeginCall(t, op) ==
    /\ tpc[t] = "idle"
    /\ qpc[t] = "idle"
    /\ calls < MaxCalls
    /\ calls' = calls + 1
    /\ top' = [top EXCEPT ![t] = op]
    /\ overlap' = (overlap \/ \E u \in Threads \ {t} : InCall(u))

ServiceFrame == UNCHANGED <<prefix, capabilities_cache, manager, last_call,
                            pre_cache, lockVars, workerVars, brokerVars>>

\* get_capability_manager, the test outside the lock
GetFirstCheck(t) ==
    /\ BeginCall(t, "get")
    /\ tpc' = [tpc EXCEPT ![t] = IF instance = NoInstance THEN "get_lock"
                                 ELSE "get_return"]
    /\ UNCHANGED <<instance, manager_lock, managers, tret, closes>>
    /\ ServiceFrame

\* with _manager_lock:
GetLock(t) ==
    /\ tpc[t] = "get_lock"
    /\ manager_lock = "free"
    /\ manager_lock' = t
    /\ tpc' = [tpc EXCEPT ![t] = "get_check2"]
    /\ UNCHANGED <<instance, managers, tret, top, calls, closes, overlap>>
    /\ ServiceFrame

\* a second test that leaves the with block without releasing the lock
GetSecondCheckKeepsLock(t) ==
    /\ tpc[t] = "get_check2"
    /\ tpc' = [tpc EXCEPT ![t] = IF SecondCheck(instance) THEN "get_construct"
                                 ELSE "get_return"]
    /\ UNCHANGED <<instance, manager_lock, managers, tret, top, calls, closes,
                   overlap>>
    /\ ServiceFrame

\* the test inside the lock; the lock is released when nothing is to be done
GetSecondCheck(t) ==
    /\ tpc[t] = "get_check2"
    /\ IF SecondCheck(instance)
       THEN /\ tpc' = [tpc EXCEPT ![t] = "get_construct"]
            /\ UNCHANGED manager_lock
       ELSE /\ tpc' = [tpc EXCEPT ![t] = "get_return"]
            /\ manager_lock' = "free"
    /\ UNCHANGED <<instance, managers, tret, top, calls, closes, overlap>>
    /\ ServiceFrame

\* _capability_manager_instance = CapabilityManager(), then the lock is released
GetConstruct(t) ==
    /\ tpc[t] = "get_construct"
    /\ \E bc \in {"none", "mqtt"} :
         managers' = Append(managers, NewManager(bc))
    /\ instance' = Len(managers) + 1
    /\ manager_lock' = "free"
    /\ tpc' = [tpc EXCEPT ![t] = "get_return"]
    /\ UNCHANGED <<tret, top, calls, closes, overlap>>
    /\ ServiceFrame

\* return _capability_manager_instance
GetReturn(t) ==
    /\ tpc[t] = "get_return"
    /\ tret' = [tret EXCEPT ![t] = instance]
    /\ tpc' = [tpc EXCEPT ![t] = "idle"]
    /\ UNCHANGED <<instance, manager_lock, managers, top, calls, closes, overlap>>
    /\ ServiceFrame

\* close_capability_manager, its test
CloseCheck(t) ==
    /\ BeginCall(t, "close")
    /\ closes' = closes + 1
    /\ tpc' = [tpc EXCEPT ![t] = IF CloseGuard(instance) THEN "close_disconnect"
                                 ELSE "idle"]
    /\ UNCHANGED <<instance, manager_lock, managers, tret>>
    /\ ServiceFrame

\* _capability_manager_instance.disconnect(): the global is read again, and
\* None has no disconnect (AttributeError)
CloseDisconnect(t) ==
    /\ tpc[t] = "close_disconnect"
    /\ IF instance = NoInstance
       THEN /\ tpc' = [tpc EXCEPT ![t] = "raised"]
            /\ UNCHANGED managers
       ELSE /\ tpc' = [tpc EXCEPT ![t] = "close_unset"]
            /\ managers' = [managers EXCEPT ![instance] = Disconnect(@)]
    /\ UNCHANGED <<instance, manager_lock, tret, top, calls, closes, overlap>>
    /\ ServiceFrame

\* _capability_manager_instance = None
CloseUnset(t) ==
    /\ tpc[t] = "close_unset"
    /\ instance' = NoInstance
    /\ tpc' = [tpc EXCEPT ![t] = "idle"]
    /\ UNCHANGED <<manager_lock, managers, tret, top, calls, closes, overlap>>
    /\ ServiceFrame

\* disconnect() called on the manager the thread was given
ManagerDisconnect(t) ==
    /\ tret[t] # NoInstance
    /\ BeginCall(t, "disconnect")
    /\ managers' = [managers EXCEPT ![tret[t]] = Disconnect(@)]
    /\ UNCHANGED <<instance, manager_lock, tpc, tret, closes>>
    /\ ServiceFrame

\* the transport calls on_message of a manager that is subscribed and
\* connected, with an advertisement of w1 or the empty payload
ManagerOnMessage ==
    /\ \E i \in 1..Len(managers) :
         /\ managers[i].subscriptions > 0 /\ managers[i].connected
         /\ \E payload \in {EmptyPayload,
                JsonDumps(CapabilityMessage("w1", <<"resize">>, 1, 1000))} :
              managers' = [managers EXCEPT ![i].cache =
                  OnMessage(@, Topic(prefix, "w1"), payload).cache]
    /\ UNCHANGED <<instance, manager_lock, tpc, tret, top, calls, closes, overlap>>
    /\ ServiceFrame

InitSingleton ==
    /\ prefix = <<"inference", "workers">>
    /\ capabilities_cache = EmptyDict
    /\ pre_cache = EmptyDict
    /\ manager = "none"
    /\ last_call = NoCall
    /\ SingletonIdle
    /\ QueryIdle
    /\ WorkerIdle

NextSingleton ==
    \/ \E t \in Threads : GetFirstCheck(t)
    \/ \E t \in Threads : GetLock(t)
    \/ \E t \in Threads : GetSecondCheck(t)
    \/ \E t \in Threads : GetConstruct(t)
    \/ \E t \in Threads : GetReturn(t)
    \/ \E t \in Threads : CloseCheck(t)
    \/ \E t \in Threads : CloseDisconnect(t)
    \/ \E t \in Threads : CloseUnset(t)
    \/ \E t \in Threads : ManagerDisconnect(t)
    \/ ManagerOnMessage

SpecSingleton == InitSingleton /\ [][NextSingleton]_vars

----------------------------------------------------------------------------
(* cache_lock, checked under SpecLock: the transport's thread runs          *)
(* on_message while threads of the service run get_cached_capabilities and *)
(* get_worker_count_by_capability. A step is one lock operation, one       *)
(* write of the cache, or one iteration of a query's loop over the cache.  *)

\* a with statement that enters whoever holds the lock
LockIgnored(lock) == TRUE

\* with self.cache_lock: the lock can be taken
LockFree(lock) == lock = "free"

\* what a query returns for a cache that stays as it is
Aggregate(op, cache) ==
    IF op = "get_cached_capabilities" THEN GetCachedCapabilities(cache)
    ELSE GetWorkerCountByCapability(cache)

\* the messages the transport delivers in SpecLock
LockPayloads(w) ==
    {EmptyPayload, GarbagePayload}
    \cup {JsonDumps(CapabilityMessage(w, <<"resize">>, i, 1000)) : i \in IdleCounts}

LockFrame == UNCHANGED <<prefix, manager, singletonVars, workerVars, brokerVars>>

\* on_message up to its with statement: the topic is split, the payload is
\* tested and parsed, and the lock is taken for the write
OnMessageAcquireOf(w, p) ==
    /\ wpc = "idle"
    /\ OnMessage(capabilities_cache, Topic(prefix, w), p).outcome
           \in {"removed", "stored"}
    /\ wmsg' = [topic |-> Topic(prefix, w), payload |-> p, outcome |-> "none"]
    /\ LockFree(cache_lock)
    /\ cache_lock' = "transport"
    /\ wpc' = "locked"
    /\ UNCHANGED <<capabilities_cache, last_call, pre_cache, qpc, qop, qtodo,
                   qacc, qres, seen>>
    /\ LockFrame

\* on_message for every worker and payload of SpecLock
OnMessageAcquire ==
    \E w \in WorkerIds : \E p \in LockPayloads(w) : OnMessageAcquireOf(w, p)

\* the write of the cache and the end of the with statement
OnMessageWrite ==
    /\ wpc = "locked"
    /\ Deliver(wmsg.topic, wmsg.payload)
    /\ seen' = [t \in Threads |->
                  IF qpc[t] = "locked" THEN seen[t] \cup {capabilities_cache'}
                  ELSE seen[t]]
    /\ cache_lock' = "free"
    /\ wpc' = "idle"
    /\ wmsg' = NoCall
    /\ UNCHANGED <<qpc, qop, qtodo, qacc, qres>>
    /\ LockFrame

\* on_message with a payload that does not parse: nothing is locked or written
OnMessageRejected ==
    /\ wpc = "idle"
    /\ \E w \in WorkerIds : \E p \in LockPayloads(w) :
         /\ OnMessage(capabilities_cache, Topic(prefix, w), p).outcome
                \notin {"removed", "stored"}
         /\ Deliver(Topic(prefix, w), p)
    /\ UNCHANGED lockVars
    /\ LockFrame

\* a query up to the start of its loop: aggregated = {}, the lock is taken,
\* and the iteration over the cache's items begins
QueryAcquire(t) ==
    /\ qpc[t] = "idle"
    /\ ~InCall(t)
    /\ LockFree(cache_lock)
    /\ cache_lock' = t
    /\ \E op \in {"get_cached_capabilities", "get_worker_count_by_capability"} :
         qop' = [qop EXCEPT ![t] = op]
    /\ qpc' = [qpc EXCEPT ![t] = "locked"]
    /\ qtodo' = [qtodo EXCEPT ![t] = DOMAIN capabilities_cache]
    /\ qacc' = [qacc EXCEPT ![t] = EmptyDict]
    /\ seen' = [seen EXCEPT ![t] = {capabilities_cache}]
    /\ UNCHANGED <<capabilities_cache, last_call, pre_cache, wpc, wmsg, qres>>
    /\ LockFrame

\* one iteration of the loop: the entry of one worker is added
QueryNext(t) ==
    /\ qpc[t] = "locked"
    /\ \E w \in qtodo[t] :
         /\ qtodo' = [qtodo EXCEPT ![t] = @ \ {w}]
         /\ qacc' = [qacc EXCEPT ![t] =
                IF w \notin DOMAIN capabilities_cache THEN @
                ELSE AddCapabilities(@, capabilities_cache[w].capabilities,
                        IF qop[t] = "get_cached_capabilities"
                        THEN capabilities_cache[w].idle_count ELSE 1)]
    /\ UNCHANGED <<capabilities_cache, last_call, pre_cache, cache_lock, wpc,
                   wmsg, qpc, qop, qres, seen>>
    /\ LockFrame

\* the loop is over: the lock is released and CapabilityStats is returned
QueryReturn(t) ==
    /\ qpc[t] = "locked"
    /\ qtodo[t] = {}
    /\ cache_lock' = "free"
    /\ qres' = [qres EXCEPT ![t] = qacc[t]]
    /\ qpc' = [qpc EXCEPT ![t] = "idle"]
    /\ UNCHANGED <<capabilities_cache, last_call, pre_cache, wpc, wmsg, qop,
                   qtodo, qacc, seen>>
    /\ LockFrame

InitLock ==
    /\ prefix = <<"inference", "workers">>
    /\ capabilities_cache = EmptyDict
    /\ pre_cache = EmptyDict
    /\ manager = "subscribed"
    /\ last_call = NoCall
    /\ SingletonIdle
    /\ QueryIdle
    /\ WorkerIdle

NextLock ==
    \/ OnMessageAcquire
    \/ OnMessageWrite
    \/ OnMessageRejected
    \/ \E t \in Threads : QueryAcquire(t)
    \/ \E t \in Threads : QueryNext(t)
    \/ \E t \in Threads : QueryReturn(t)

SpecLock == InitLock /\ [][NextLock]_vars

----------------------------------------------------------------------------
(* The aggregator's view of a worker that stays as it is, checked under    *)
(* SpecSteady: Spec with fairness of the steps that need no time to pass   *)
(* in the main task (init and the loop test), of the heartbeat's start, of *)
(* the broker's delivery, and strong fairness of a heartbeat publish that  *)
(* the transport accepts (a working transport may fail a publish, but not  *)
(* every publish).  run_once and the poll sleep may last for ever.         *)

\* a heartbeat wake-up whose publish the transport accepts
HeartbeatPublishAccepted == HeartbeatWake /\ issued' = "publish" /\ success'

FairnessSteady ==
    /\ WF_vars(Start)
    /\ WF_vars(LoopEnter)
    /\ WF_vars(HeartbeatStart)
    /\ SF_vars(HeartbeatPublishAccepted)
    /\ WF_vars(BrokerDeliver)

SpecSteady == Init /\ [][Next]_vars /\ FairnessSteady

----------------------------------------------------------------------------
(* Both locks together, checked under SpecService: every thread of the     *)
(* service makes calls of get_capability_manager, close_capability_manager *)
(* and the two queries, one call at a time, while the transport's thread   *)
(* runs on_message for worker w1.                                          *)

\* the messages the transport delivers in SpecService
ServicePayloads ==
    {EmptyPayload, JsonDumps(CapabilityMessage("w1", <<"resize">>, 1, 1000))}

NextService ==
    \/ \E t \in Threads : calls < MaxServiceCalls /\ GetFirstCheck(t)
    \/ \E t \in Threads : GetLock(t)
    \/ \E t \in Threads : GetSecondCheck(t)
    \/ \E t \in Threads : GetConstruct(t)
    \/ \E t \in Threads : GetReturn(t)
    \/ \E t \in Threads : calls < MaxServiceCalls /\ CloseCheck(t)
    \/ \E t \in Threads : CloseDisconnect(t)
    \/ \E t \in Threads : CloseUnset(t)
    \/ \E p \in ServicePayloads : OnMessageAcquireOf("w1", p)
    \/ OnMessageWrite
    \/ \E t \in Threads : QueryAcquire(t)
    \/ \E t \in Threads : QueryNext(t)
    \/ \E t \in Threads : QueryReturn(t)

\* the next step of thread t inside the call it has begun
Continue(t) ==
    \/ GetLock(t)
    \/ GetSecondCheck(t)
    \/ GetConstruct(t)
    \/ GetReturn(t)
    \/ CloseDisconnect(t)
    \/ CloseUnset(t)
    \/ QueryNext(t)
    \/ QueryReturn(t)

SpecService == InitSingleton /\ [][NextService]_vars

----------------------------------------------------------------------------
(* SpecFleet: the aggregator fed by workers of this repository only: on    *)
(* every worker's topic arrive what CapabilityBroadcaster.publish() sends  *)
(* for some non-empty active set and idle flag, and the empty payload of   *)
(* clear() and of the last will.                                           *)

\* an advertisement of worker w arrives
FleetPublish ==
    \E w \in WorkerIds : \E tasks \in (SUBSET TaskTypes) \ {{}} :
    \E flag \in BOOLEAN : \E t \in Times :
        /\ Deliver(Topic(prefix, w), PublishedPayload(w, tasks, flag, t))
        /\ UNCHANGED <<prefix, manager, serviceVars, workerVars, brokerVars>>

\* the empty payload of worker w's clear() or last will arrives
FleetClear ==
    \E w \in WorkerIds :
        /\ Deliver(Topic(prefix, w), EmptyPayload)
        /\ UNCHANGED <<prefix, manager, serviceVars, workerVars, brokerVars>>

NextFleet == FleetPublish \/ FleetClear

SpecFleet == InitAgg /\ [][NextFleet]_vars

----------------------------------------------------------------------------
(* Claims about the aggregator, checked under SpecAgg *)

Called == last_call.outcome # "none"
Addressed == last_call.topic[Len(last_call.topic)]
WellFormedTopic == Len(last_call.topic) >= 3
Advertises(cache, w, T) == T \in Range(cache[w].capabilities)

RECURSIVE SumIdle(_, _)
SumIdle(cache, S) ==
    IF S = {} THEN 0
    ELSE LET w == CHOOSE x \in S : TRUE
         IN cache[w].idle_count + SumIdle(cache, S \ {w})

\* C3: after a valid advertisement M is processed on worker W's topic, the
\* cache entry of W is exactly M's parsed content, whatever W's entry was
\* before (full replacement, no merge with the previous entry).
C3_FullReplace ==
    (Called /\ WellFormedTopic /\ ~IsBlank(last_call.payload)
        /\ ModelValidateJson(last_call.payload).raised = "none")
    => /\ Addressed \in DOMAIN capabilities_cache
       /\ capabilities_cache[Addressed] =
            CapabilityMessage(last_call.payload.id, last_call.payload.capabilities,
                              last_call.payload.idle_count, last_call.payload.timestamp)

C3_Witness ==
    /\ Called /\ WellFormedTopic /\ last_call.outcome = "stored"
    /\ Addressed \in DOMAIN pre_cache
    /\ pre_cache[Addressed] =
            CapabilityMessage("elsewhere", <<"resize", "convert">>, 2, 2000)
    /\ capabilities_cache[Addressed] =
            CapabilityMessage(Addressed, <<"convert">>, 0, 1000)

\* C4: an empty or whitespace-only payload on W's topic leaves W absent from
\* the cache (no tombstone), whatever W's entry was before; when W was the
\* only cached worker both queries return empty maps.
C4_EmptyRemoves ==
    \A w \in WorkerIds :
        (Called /\ last_call.topic = Topic(prefix, w) /\ IsBlank(last_call.payload))
        => /\ w \notin DOMAIN capabilities_cache
           /\ (DOMAIN pre_cache \subseteq {w}
                => /\ GetCachedCapabilities(capabilities_cache) = EmptyDict
                   /\ GetWorkerCountByCapability(capabilities_cache) = EmptyDict)

C4_Witness ==
    /\ Called /\ last_call.topic = Topic(prefix, "w1")
    /\ last_call.payload = BlankPayload
    /\ DOMAIN pre_cache = {"w1"}
    /\ pre_cache["w1"].idle_count = 0
    /\ pre_cache["w1"].capabilities = <<"resize", "convert">>
    /\ capabilities_cache = EmptyDict

\* C5: get_cached_capabilities maps every task type T to the sum of the
\* idle_count fields of the cache entries whose capabilities contain T, and
\* a type in no entry is absent from the result.
C5_IdleSum ==
    LET result == GetCachedCapabilities(capabilities_cache)
    IN \A T \in TaskTypes :
        LET having == {w \in DOMAIN capabilities_cache :
                            Advertises(capabilities_cache, w, T)}
        IN IF having = {} THEN T \notin DOMAIN result
           ELSE T \in DOMAIN result /\ result[T] = SumIdle(capabilities_cache, having)

\* C6: get_worker_count_by_capability maps every task type T to the number
\* of cache entries whose capabilities contain T, idle or not, and a type
\* no cached worker advertises is absent from the result.
C6_WorkerCount ==
    LET result == GetWorkerCountByCapability(capabilities_cache)
    IN \A T \in TaskTypes :
        LET having == {w \in DOMAIN capabilities_cache :
                            Advertises(capabilities_cache, w, T)}
        IN IF having = {} THEN T \notin DOMAIN result
           ELSE T \in DOMAIN result /\ result[T] = Cardinality(having)

\* C7: on_message with a topic of too few segments, or with a non-empty
\* payload that does not parse as a CapabilityMessage, returns without
\* raising and leaves the whole cache as it was.
C7_MalformedIgnored ==
    (Called /\ (~WellFormedTopic
                \/ (~IsBlank(last_call.payload)
                    /\ ModelValidateJson(last_call.payload).raised # "none")))
    => /\ capabilities_cache = pre_cache
       /\ last_call.outcome \in {"ignored_topic", "caught_json", "caught_outer"}

C7_Witness ==
    /\ Called /\ WellFormedTopic
    /\ last_call.payload = GarbagePayload
    /\ Addressed \in DOMAIN capabilities_cache
    /\ capabilities_cache[Addressed].capabilities = <<"resize">>
    /\ DOMAIN capabilities_cache = WorkerIds

----------------------------------------------------------------------------
(* Claims about the worker, checked under Spec *)

BusyTrace == <<"publish_busy", "run_once_start">>
FullTrace == BusyTrace \o <<"run_once_end", "publish_idle">>

\* what the snapshot get_cached_capabilities() shows of the worker: an idle
\* count of 0 for each of its task types, or no entry for the type
SnapshotShowsBusy ==
    LET snapshot == GetCachedCapabilities(capabilities_cache)
    IN \A T \in active_tasks : T \in DOMAIN snapshot => snapshot[T] = 0

\* C1: in every iteration the flag is set busy and a publish with
\* idle_count 0 is issued before run_once starts, and after run_once ends
\* (returned, raised or cancelled) the flag is set idle and a publish with
\* idle_count 1 is issued; the order publish-busy, start, end, publish-idle
\* is never changed.
C1_PublishAroundExecution ==
    /\ trace \in {<<>>, BusyTrace, FullTrace}
    /\ (pc = "run_once") <=> (trace = BusyTrace)
    /\ pc = "run_once" => ~is_idle
    /\ trace = FullTrace => is_idle
    /\ outcome # "none" => trace # <<>>
    /\ (pc = "run_once" /\ success)
        => retained.kind = "json" /\ retained.idle_count = 0
    /\ (trace = FullTrace /\ issued = "publish" /\ success)
        => retained.kind = "json" /\ retained.idle_count = 1

C1_Witness ==
    /\ pc = "sleep" /\ outcome = "exception" /\ trace = FullTrace
    /\ issued = "publish" /\ success /\ retained.idle_count = 1

C8_ClearOnceAfterHeartbeat ==
    /\ clear_count <= 1
    /\ (pc = "done" /\ shutdown_signal_count <= 1) => clear_count = 1
    /\ clear_count >= 1 => cancel_called /\ heartbeat_task = "done"

C8_Witness ==
    /\ pc = "done" /\ exit_status = "0"
    /\ shutdown_event /\ shutdown_signal_count = 1
    /\ trace = FullTrace /\ clear_count = 1

\* C9: once clear() has been issued the worker issues no further publish,
\* from the heartbeat or from the main loop: clear() stays the last call,
\* and when it succeeded the broker's retained payload and the last
\* payload sent towards the aggregator are the empty payload.
C9_NoPublishAfterClear ==
    clear_count >= 1
    => /\ issued = "clear"
       /\ success => /\ retained = EmptyPayload
                     /\ queue # <<>> => queue[Len(queue)] = EmptyPayload

C9_Witness ==
    /\ clear_count = 1 /\ issued = "clear" /\ success
    /\ ~shutdown_event /\ outcome = "cancelled"
    /\ retained = EmptyPayload /\ queue = <<>>
    /\ WorkerId \notin DOMAIN capabilities_cache
    /\ WorkerId \in DOMAIN pre_cache

\* C10: after a second shutdown signal delivered while the drain is in
\* progress, clear() is never executed.
C10_SecondSignalSkipsClear == shutdown_signal_count >= 2 => clear_count = 0

\* C11: on the first signal the handler sets the shutdown flag and returns
\* with the process running where it was; on every later signal it raises
\* SystemExit(1): the main task is ended or unwinding at once, and the
\* process ends with status 1 (and with no other cause of status 1).
C11_FirstSetsFlagLaterExits ==
    /\ [][shutdown_signal_count' # shutdown_signal_count
            => IF shutdown_signal_count = 0
               THEN /\ shutdown_event'
                    /\ exit_status' = "running"
                    /\ UNCHANGED <<pc, cancel_called, heartbeat_task, trace,
                                   issued, clear_count, teardown_count>>
               ELSE /\ UNCHANGED shutdown_event
                    /\ \/ pc' = "done" /\ exit_status' = "1"
                       \/ pc' = "await_hb" /\ cancel_called']_vars
    /\ [](shutdown_signal_count >= 1 => shutdown_event)
    /\ []((pc = "done" /\ shutdown_signal_count >= 2) => exit_status = "1")
    /\ [](exit_status = "1" => shutdown_signal_count >= 2)

C11_Witness ==
    /\ shutdown_signal_count = 2 /\ shutdown_event
    /\ pc = "done" /\ exit_status = "1" /\ outcome = "SystemExit"

\* C12: a first signal taken while run_once is in progress leaves the job
\* running; run_once is left only through its idle publish; the heartbeat
\* is not cancelled and clear() not issued while the job runs; and once
\* the loop condition has seen the flag the main task goes to the
\* shutdown sequence and never starts run_once again.
C12_DrainFinishesJob ==
    /\ [][(shutdown_signal_count = 0 /\ shutdown_signal_count' = 1
              /\ pc = "run_once")
            => /\ pc' = "run_once" /\ shutdown_event'
               /\ UNCHANGED <<trace, is_idle, issued, retained, queue,
                              cancel_called, clear_count>>]_vars
    /\ [][(pc = "run_once" /\ pc' # "run_once")
            => /\ trace' = FullTrace /\ is_idle' /\ issued' = "publish"
               /\ clear_count' = 0]_vars
    /\ [](pc = "run_once" => ~cancel_called /\ clear_count = 0)
    /\ [][(pc = "loop" /\ shutdown_event /\ pc' # pc)
            => pc' = "await_hb" /\ cancel_called' /\ clear_count' = 0]_vars
    /\ [][(pc = "await_hb" \/ pc = "done")
            => (pc' = "await_hb" \/ pc' = "done")]_vars

\* the flag is set and the job of the iteration is still running
C12_Witness ==
    /\ pc = "run_once" /\ shutdown_event /\ shutdown_signal_count = 1
    /\ trace = BusyTrace /\ ~is_idle
    /\ heartbeat_task = "done" /\ ~cancel_called

----------------------------------------------------------------------------
(* Claims about construction, checked under SpecCtor *)

Constructed == pc # "new"

\* C13: construction resolves active_tasks as exactly the intersection of
\* the available task types and the requested task types, whatever the
\* two sets are, and succeeds exactly when that intersection is not empty.
C13_ActiveIsIntersection ==
    Constructed
    => /\ active_tasks = Range(plugin_types) \cap requested_tasks
       /\ (raised = "none") <=> (Range(plugin_types) \cap requested_tasks # {})
       /\ (raised = "none") <=> (pc # "failed")

\* requested {resize, convert}, available {convert, hash}: active {convert}
C13_Witness ==
    /\ Constructed /\ raised = "none"
    /\ requested_tasks = {"resize", "convert"}
    /\ Range(plugin_types) = {"convert", "hash"}
    /\ active_tasks = {"convert"}

NoFilter == ~Truthy(supported_tasks) /\ ~Truthy(config_tasks)

\* C14: whenever the resolved active set is empty the constructor raises,
\* with no advertiser created, nothing published and the loop not started,
\* and with 'No compute plugins found' when types were requested and none
\* is available, 'No matching plugins found' when requested and available
\* are both non-empty but disjoint, 'No task types specified' when there
\* is no filter and nothing is available; otherwise it does not raise.
C14_EmptyActiveDiagnostics ==
    LET available == Range(plugin_types)
    IN Constructed
       => /\ (active_tasks = {}) <=> (pc = "failed")
          /\ (active_tasks # {}) <=> (raised = "none")
          /\ pc = "failed"
              => /\ broadcaster = "absent" /\ issued = "none"
                 /\ heartbeat_task = "none" /\ will = FALSE
                 /\ retained = EmptyPayload /\ queue = <<>>
                 /\ exit_status = "1"
          /\ (raised = "No compute plugins found")
                <=> (pc = "failed" /\ requested_tasks # {} /\ available = {})
          /\ (raised = "No matching plugins found")
                <=> (pc = "failed" /\ requested_tasks # {} /\ available # {})
          /\ (raised = "No task types specified")
                <=> (pc = "failed" /\ NoFilter /\ available = {})
          /\ (requested_tasks # {} /\ available = {}) => ~NoFilter

\* the filter comes from the configuration and matches no plugin
C14_Witness ==
    /\ pc = "failed" /\ raised = "No matching plugins found"
    /\ supported_tasks = List(<<>>)
    /\ config_tasks = List(<<"hash", "hash">>)
    /\ Range(plugin_types) = {"resize", "convert"}
    /\ active_tasks = {}

----------------------------------------------------------------------------
(* Claims about the worker's handling of failures, checked under Spec *)

\* C15: when run_once raises an exception the iteration ends as one that
\* processed no job: the idle publish is issued, the main task goes to
\* the poll-interval sleep with the process running, the heartbeat not
\* cancelled and clear() not issued; from the sleep it returns to the loop
\* test, and from the loop test without the flag to the next run_once.
C15_ExceptionIsNoJob ==
    /\ [](AfterJob("exception") = AfterJob("false"))
    /\ [][(pc = "run_once" /\ pc' # pc /\ outcome' = "exception")
            => /\ pc' = "sleep" /\ exit_status' = "running"
               /\ trace' = FullTrace /\ is_idle'
               /\ ~cancel_called' /\ clear_count' = 0]_vars
    /\ [][(pc = "sleep" /\ pc' # pc
              /\ shutdown_signal_count' = shutdown_signal_count)
            => pc' = "loop"]_vars
    /\ [][(pc = "loop" /\ pc' # pc /\ ~shutdown_event)
            => pc' = "run_once" /\ exit_status' = "running"]_vars

\* the iteration after one whose run_once raised
C15_Witness ==
    /\ pc = "run_once" /\ outcome = "exception" /\ trace = BusyTrace
    /\ exit_status = "running" /\ ~shutdown_event /\ clear_count = 0

\* C16: when get_broadcaster gives no transport, init(), publish() and
\* clear() return without sending: no will is registered, the broker keeps
\* no retained payload, nothing is in flight and the aggregator's cache
\* is empty; run() goes from init() into the loop, the loop test without
\* the flag starts run_once with the flag busy, and run_once is left with
\* the flag idle, as with a transport.
C16_NoTransportNoOp ==
    /\ [](broadcaster = "none"
            => /\ ~will /\ retained = EmptyPayload /\ queue = <<>>
               /\ ~success /\ capabilities_cache = EmptyDict)
    /\ [][(pc = "start" /\ pc' # pc
              /\ shutdown_signal_count' = shutdown_signal_count)
            => pc' = "loop" /\ heartbeat_task' = "created"
               /\ issued' = "publish" /\ exit_status' = "running"]_vars
    /\ [][(broadcaster = "none" /\ pc = "loop" /\ pc' # pc /\ ~shutdown_event)
            => pc' = "run_once" /\ trace' = BusyTrace /\ ~is_idle'
               /\ exit_status' = "running"]_vars
    /\ [][(broadcaster = "none" /\ pc = "run_once" /\ pc' # pc)
            => trace' = FullTrace /\ is_idle'
               /\ pc' = AfterJob(outcome')]_vars
    /\ []((broadcaster = "none" /\ pc = "done" /\ shutdown_signal_count <= 1)
            => exit_status = "0" /\ issued = "clear")

\* a run without transport that processed a job and shut down
C16_Witness ==
    /\ broadcaster = "none" /\ pc = "done" /\ exit_status = "0"
    /\ outcome = "true" /\ trace = FullTrace
    /\ issued = "clear" /\ clear_count = 1
    /\ retained = EmptyPayload /\ manager = "subscribed"

\* C17: a publish or clear that the transport fails returns normally and
\* changes nothing at the broker; the flag keeps the value the caller gave
\* it and the active set is never changed; after a failed busy publish
\* run_once is invoked, after run_once the flag is idle again whatever
\* the publishes returned, a failed heartbeat publish leaves the heartbeat
\* sleeping, and a failed clear() still ends run() with status 0.
C17_TransportFailureHarmless ==
    /\ [][active_tasks' = active_tasks]_vars
    /\ [][(broadcaster = "mqtt" /\ pc = "loop" /\ pc' = "run_once" /\ ~success')
            => /\ ~is_idle' /\ trace' = BusyTrace
               /\ exit_status' = "running"
               /\ UNCHANGED <<retained, queue>>]_vars
    /\ [][(broadcaster = "mqtt" /\ pc = "run_once" /\ pc' # pc)
            => /\ is_idle' /\ trace' = FullTrace /\ issued' = "publish"
               /\ pc' = AfterJob(outcome')
               /\ ~success' => UNCHANGED <<retained, queue>>]_vars
    /\ [][(success /\ ~success' /\ pc' = pc)
            => /\ heartbeat_task = "sleeping" /\ heartbeat_task' = "sleeping"
               /\ UNCHANGED <<is_idle, retained, queue, exit_status>>]_vars
    /\ [][(broadcaster = "mqtt" /\ pc = "await_hb" /\ pc' = "done"
              /\ clear_count' = 1 /\ ~success')
            => /\ exit_status' = IF shutdown_signal_count >= 2 THEN "1" ELSE "0"
               /\ UNCHANGED <<is_idle, retained, queue>>]_vars

\* the busy publish failed: the broker still retains the idle
\* advertisement while run_once is in progress with the flag busy
C17_Witness ==
    /\ broadcaster = "mqtt" /\ pc = "run_once" /\ ~success
    /\ issued = "publish" /\ ~is_idle /\ heartbeat_task = "created"
    /\ retained.kind = "json" /\ retained.idle_count = 1

\* C18: a CapabilityManager constructed without a transport is constructed
\* all the same, has no subscription (nothing is ever put in flight
\* towards it and on_message is never called), keeps an empty cache for
\* as long as it exists, and both queries return empty maps.
C18_DegradedManagerEmpty ==
    /\ [](manager = "degraded"
            => /\ queue = <<>> /\ last_call = NoCall
               /\ capabilities_cache = EmptyDict
               /\ GetCachedCapabilities(capabilities_cache) = EmptyDict
               /\ GetWorkerCountByCapability(capabilities_cache) = EmptyDict)
    /\ [][manager = "degraded" => manager' = "degraded"]_vars
    /\ [][(manager = "none" /\ manager' # manager)
            => (manager' = "degraded" \/ manager' = "subscribed")]_vars

\* the worker is advertising and the manager without transport sees nothing
C18_Witness ==
    /\ manager = "degraded" /\ capabilities_cache = EmptyDict
    /\ broadcaster = "mqtt" /\ success /\ pc = "run_once"
    /\ retained.kind = "json" /\ retained.idle_count = 0

\* C19: every publish() made with a transport calls publish_retained with
\* qos 1 on the topic <prefix>/<worker_id>, and its payload is a JSON
\* object whose id is the worker_id, whose capabilities list every active
\* task type once, and whose idle_count is 1 when is_idle is true and 0
\* when it is false; when the transport accepts it, it is the payload the
\* broker retains.
C19_PublishedMessage ==
    /\ (broadcaster = "mqtt" /\ issued = "publish")
        => sent.method = "publish_retained"
    /\ sent.method = "publish_retained"
        => /\ sent.topic = prefix \o <<WorkerId>>
           /\ sent.qos = 1
           /\ sent.payload.kind = "json"
           /\ sent.payload.present = FieldNames
           /\ sent.payload.id = WorkerId
           /\ Range(sent.payload.capabilities) = active_tasks
           /\ Len(sent.payload.capabilities) = Cardinality(active_tasks)
           /\ sent.payload.idle_t = "int"
           /\ sent.payload.idle_count \in {0, 1}
           /\ (sent.payload.idle_count = 1) <=> is_idle
           /\ success => retained = sent.payload

\* a busy publish of a worker with two task types under a two-segment prefix
C19_Witness ==
    /\ sent.method = "publish_retained" /\ success
    /\ sent.topic = <<"inference", "workers", "w1">>
    /\ active_tasks = TaskTypes /\ ~is_idle
    /\ sent.payload.idle_count = 0
    /\ retained = sent.payload

----------------------------------------------------------------------------
(* Claims about the worker's end, checked under SpecLive *)

Stopped == pc = "done"

\* C20: once the worker has stopped, by graceful shutdown or by an unclean
\* end, its entry is eventually absent from the aggregator's cache and
\* stays absent.
C20_StoppedWorkerRemoved ==
    Stopped ~> [](WorkerId \notin DOMAIN capabilities_cache)

----------------------------------------------------------------------------
(* Claims about the end of run_worker *)

\* C21: on every way the lifecycle ends (the loop completing, a forced
\* exit, an exception out of the constructor or of run()),
\* shutdown_broadcaster() has been called exactly once.
C21_TeardownExactlyOnce ==
    (pc = "done" \/ pc = "failed") => teardown_count = 1

----------------------------------------------------------------------------
(* Claims about the singleton, checked under SpecSingleton *)

ThreadStep == tpc' # tpc \/ calls' # calls

\* C22: shutting the aggregator down again changes nothing and raises
\* nothing. close_capability_manager with no manager returns at once and
\* leaves the singleton and every manager as they are; calls that do not
\* overlap never raise; a finished close leaves the singleton unset;
\* a manager that is already disconnected, or that has no transport, is
\* left as it is by every later disconnect() and close; and no step of close
\* or disconnect changes the cache of any manager.
C22_ShutdownIdempotent ==
    [][ /\ \A t \in Threads :
            (tpc'[t] = "raised" /\ tpc[t] # "raised") => overlap
        /\ (closes' # closes /\ instance = NoInstance) =>
            /\ instance' = NoInstance
            /\ managers' = managers
            /\ tpc' = tpc
        /\ \A t \in Threads :
            (tpc[t] = "close_unset" /\ tpc'[t] = "idle") => instance' = NoInstance
        /\ \A i \in 1..Len(managers) :
            (~managers[i].connected) => managers'[i] = managers[i]
        /\ ThreadStep =>
            /\ Len(managers') >= Len(managers)
            /\ \A i \in 1..Len(managers) : managers'[i].cache = managers[i].cache
      ]_vars

\* two closes one after the other, of a manager whose cache holds an entry
C22_Witness ==
    /\ closes = 2 /\ ~overlap
    /\ \A t \in Threads : tpc[t] = "idle"
    /\ instance = NoInstance
    /\ Len(managers) = 1
    /\ managers[1].cache # EmptyDict
    /\ ~managers[1].connected

\* C30: as long as close_capability_manager has not been called, however the
\* calls of get_capability_manager interleave, at most one CapabilityManager
\* has been constructed, with at most one subscription, the singleton is
\* unset or that manager, and every call that has returned has returned
\* that manager.
C30_OneManager ==
    closes = 0 =>
        /\ Len(managers) <= 1
        /\ instance = Len(managers)
        /\ \A i \in 1..Len(managers) :
             managers[i].subscriptions = IF managers[i].broadcaster = "mqtt" THEN 1 ELSE 0
        /\ \A t \in Threads :
             (top[t] # "none" /\ tpc[t] = "idle") =>
                 /\ Len(managers) = 1
                 /\ tret[t] = instance
                 /\ tret[t] # NoInstance

\* one thread has constructed the manager while the other, which had also
\* found the singleton unset, holds the lock and is about to test again
C30_Witness ==
    /\ closes = 0
    /\ \E t, u \in Threads :
         /\ tpc[t] = "get_return" /\ tpc[u] = "get_check2"
         /\ manager_lock = u
    /\ Len(managers) = 1

----------------------------------------------------------------------------
(* Claims about cache_lock, checked under SpecLock *)

\* C23: however on_message calls and queries interleave, what a query has
\* returned is the aggregation of one cache state that existed while the
\* query ran; while a query holds the lock the cache does not change, and
\* the lock has one holder at a time.
C23_QueriesSeeOneState ==
    /\ \A t \in Threads :
         (qop[t] # "none" /\ qpc[t] = "idle") =>
             \E c \in seen[t] : qres[t] = Aggregate(qop[t], c)
    /\ \A t \in Threads :
         qpc[t] = "locked" =>
             /\ cache_lock = t
             /\ seen[t] = {capabilities_cache}
             /\ wpc # "locked"
    /\ wpc = "locked" => cache_lock = "transport"

\* a query has returned the totals of a cache of two workers while the
\* transport's thread, holding a message for one of them, has the lock
C23_Witness ==
    \E t \in Threads :
        /\ qop[t] = "get_cached_capabilities" /\ qpc[t] = "idle"
        /\ qres[t] = DictSet(EmptyDict, "resize", 2)
        /\ wpc = "locked"
        /\ DOMAIN capabilities_cache = WorkerIds

----------------------------------------------------------------------------
(* Claims about the worker's loop and heartbeat, checked under Spec *)

\* C24: while run_once is in progress the worker's flag is busy, the last
\* message handed to the transport, the heartbeat's included, carries
\* idle_count 0, and whatever the broker newly retains carries idle_count 0:
\* no message with idle_count 1 is published during a job.
C24_BusyDuringJob ==
    [][ pc' = "run_once" =>
          /\ ~is_idle'
          /\ broadcaster' = "mqtt" =>
                /\ sent'.method = "publish_retained"
                /\ sent'.payload.idle_count = 0
          /\ broadcaster' # "mqtt" => sent' = NoSend
          /\ retained' # retained =>
                /\ retained'.kind = "json"
                /\ retained'.idle_count = 0
      ]_vars

\* the busy publish and a heartbeat's publish during the same run_once are
\* both on their way to the aggregator
C24_Witness ==
    /\ pc = "run_once" /\ heartbeat_task = "sleeping"
    /\ Len(queue) = 2
    /\ \A i \in 1..2 : queue[i].kind = "json" /\ queue[i].idle_count = 0
    /\ retained = sent.payload

\* C25: an iteration whose run_once returned false or raised goes to the
\* poll-interval sleep, and one whose run_once processed a job goes straight
\* back to the loop test; the loop test is reached only from run()'s start,
\* from the end of that sleep or from a processed job, and run_once is
\* entered only from the loop test with shutdown not requested, which then
\* always enters it.
C25_SleepOnlyAfterNoJob ==
    [][ /\ (pc = "run_once" /\ pc' # pc /\ outcome' \in {"false", "exception"})
            => pc' = "sleep"
        /\ (pc = "run_once" /\ pc' # pc /\ outcome' = "true")
            => pc' = "loop"
        /\ (pc' = "loop" /\ pc # "loop")
            => \/ pc = "start"
               \/ pc = "sleep"
               \/ pc = "run_once" /\ outcome' = "true"
        /\ (pc' = "sleep" /\ pc # "sleep")
            => pc = "run_once" /\ outcome' \in {"false", "exception"}
        /\ (pc' = "run_once" /\ pc # "run_once")
            => pc = "loop" /\ ~shutdown_event
        /\ (pc = "loop" /\ pc' # pc /\ ~shutdown_event)
            => pc' = "run_once"
      ]_vars

\* the loop test right after a processed job, shutdown not requested
C25_Witness ==
    /\ pc = "loop" /\ outcome = "true" /\ ~shutdown_event
    /\ exit_status = "running" /\ is_idle

advertised == <<issued, sent, success, retained>>

\* C26: a heartbeat that sleeps, with the main task suspended, shutdown not
\* requested and no cancellation, can always wake and publish, whether or
\* not anything changed since its last publish; what it publishes is the
\* current task types and idle flag, and it goes on sleeping. Once the
\* shutdown flag is set nothing but the main task publishes any more, and
\* a heartbeat that ends without having been cancelled ends at a wake-up
\* with the flag set, publishing nothing.
C26_HeartbeatPublishesUntilShutdown ==
    /\ []((heartbeat_task = "sleeping" /\ Suspended /\ ~cancel_called
              /\ ~shutdown_event /\ exit_status = "running")
            => ENABLED (HeartbeatWake /\ issued' = "publish"
                          /\ heartbeat_task' = "sleeping"))
    /\ [][(pc' = pc /\ advertised' # advertised)
            => /\ heartbeat_task = "sleeping" /\ heartbeat_task' = "sleeping"
               /\ Suspended /\ ~shutdown_event /\ ~cancel_called
               /\ issued' = "publish"
               /\ broadcaster = "mqtt"
               /\ sent'.method = "publish_retained"
               /\ sent'.payload.idle_count = IdleCount(is_idle)
               /\ Range(sent'.payload.capabilities) = active_tasks]_vars
    /\ [][(heartbeat_task # "done" /\ heartbeat_task' = "done" /\ ~cancel_called')
            => /\ shutdown_event
               /\ heartbeat_task \in {"created", "sleeping"}
               /\ advertised' = advertised /\ queue' = queue]_vars

\* the heartbeat has ended on its own, not cancelled, while the main task
\* is still inside run_once
C26_Witness ==
    /\ heartbeat_task = "done" /\ ~cancel_called
    /\ shutdown_event /\ pc = "run_once"
    /\ broadcaster = "mqtt" /\ sent.payload.idle_count = 0

----------------------------------------------------------------------------
(* Claims about what eventually happens, checked under SpecLive *)

Draining ==
    /\ shutdown_event /\ exit_status = "running"
    /\ pc \in {"loop", "run_once", "sleep", "await_hb"}

\* C27: once the shutdown flag is set in a worker that is inside run(),
\* and run_once in progress ends, the worker eventually stops; when it
\* stops with status 0 (no forced exit, not killed) the heartbeat was
\* cancelled and has ended, clear() was issued once and
\* shutdown_broadcaster() was called once.
C27_DrainingStops ==
    Draining ~>
        (/\ pc = "done"
         /\ exit_status = "0" =>
               /\ cancel_called /\ heartbeat_task = "done"
               /\ clear_count = 1 /\ issued = "clear"
               /\ teardown_count = 1)

\* a worker stopped by one signal, after its last run_once processed a job
C27_Witness ==
    /\ pc = "done" /\ exit_status = "0" /\ shutdown_signal_count = 1
    /\ outcome = "true" /\ cancel_called /\ heartbeat_task = "done"
    /\ clear_count = 1 /\ broadcaster = "mqtt"

----------------------------------------------------------------------------
(* Claims about the aggregator's view of the worker, checked under SpecSteady *)

\* a worker inside run() with a transport, shutdown not requested, and an
\* aggregator subscribed to its topic
RunningAndObserved ==
    /\ exit_status = "running" /\ ~shutdown_event
    /\ pc \in {"loop", "run_once", "sleep"}
    /\ broadcaster = "mqtt"
    /\ manager = "subscribed"

\* the aggregator's entry for the worker is the worker's current state
EntryIsCurrent ==
    /\ WorkerId \in DOMAIN capabilities_cache
    /\ capabilities_cache[WorkerId].id = WorkerId
    /\ Range(capabilities_cache[WorkerId].capabilities) = active_tasks
    /\ capabilities_cache[WorkerId].idle_count = IdleCount(is_idle)

\* C28: if from some time on a running, observed worker stays busy, or
\* stays idle, then from some time on the aggregator's entry for it holds
\* its current task types and idle flag.
C28_EventuallyConsistent ==
    \A flag \in BOOLEAN :
        <>[](RunningAndObserved /\ is_idle = flag) => <>[]EntryIsCurrent

\* what on_message stores for an advertisement
Stored(p) ==
    [id |-> p.id, capabilities |-> p.capabilities, idle_count |-> p.idle_count,
     timestamp |-> p.timestamp]

\* C29: an aggregator that has subscribed, and to which everything in
\* flight has been delivered, holds for the worker exactly what the broker
\* retains on the worker's topic: the worker's last accepted advertisement,
\* also when it subscribed after that publish and no heartbeat or state
\* change followed, and no entry when the topic was cleared or never
\* published.
C29_RetainedStateObtained ==
    (manager = "subscribed" /\ queue = <<>>) =>
        IF retained.kind = "json"
        THEN /\ WorkerId \in DOMAIN capabilities_cache
             /\ capabilities_cache[WorkerId] = Stored(retained)
        ELSE WorkerId \notin DOMAIN capabilities_cache

\* C31: a get_capability_manager call that has returned has returned a
\* CapabilityManager, never None, whatever close_capability_manager calls
\* ran at the same time.
C31_GetNeverNone ==
    \A t \in Threads :
        (top[t] = "get" /\ tpc[t] = "idle") => tret[t] # NoInstance

----------------------------------------------------------------------------
(* Claims about both locks, checked under SpecService *)

Holders == Threads \cup {"transport"}

\* what holder h holds
Holds(h) ==
    (IF manager_lock = h THEN {"_manager_lock"} ELSE {})
    \cup (IF cache_lock = h THEN {"cache_lock"} ELSE {})

\* thread t is inside a call
Calling(t) == InCall(t) \/ qpc[t] # "idle"

\* the steps thread t has still to take, at most, in the call it is inside
Rank(t) ==
    (CASE tpc[t] = "get_lock" -> 4
       [] tpc[t] = "get_check2" -> 3
       [] tpc[t] \in {"get_construct", "close_disconnect"} -> 2
       [] tpc[t] \in {"get_return", "close_unset"} -> 1
       [] OTHER -> 0)
    + (IF qpc[t] = "locked" THEN 1 + Cardinality(qtodo[t]) ELSE 0)

\* C32: no thread holds two locks at once, and a lock is held only inside
\* the call that took it. No state is a deadlock: every call in progress
\* can take its next step, or waits for a lock whose holder can take its
\* next step; and every step of a call brings the call nearer to its end
\* (get and the queries return, close returns or raises), so that every
\* call a thread goes on with ends, with no lock held. on_message that
\* took the lock can write, and then has released it.
C32_NoNestingNoDeadlock ==
    /\ [](\A h \in Holders : Cardinality(Holds(h)) <= 1)
    /\ [](\A t \in Threads : ~Calling(t) => Holds(t) = {})
    /\ [](wpc = "idle" => Holds("transport") = {})
    /\ [](\A t \in Threads : Calling(t) =>
            \/ ENABLED Continue(t)
            \/ /\ tpc[t] = "get_lock"
               /\ \E u \in Threads \ {t} : manager_lock = u /\ ENABLED Continue(u))
    /\ [](wpc # "idle" => ENABLED OnMessageWrite)
    /\ [][ /\ \A t \in Threads :
              (Calling(t) /\ <<tpc[t], qpc[t], qtodo[t]>>' # <<tpc[t], qpc[t], qtodo[t]>>)
                 => Rank(t)' < Rank(t)
          /\ (wpc # "idle" /\ wpc' # wpc) => wpc' = "idle"
        ]_vars

\* one thread waits for _manager_lock, which the other holds, while the
\* transport's thread holds cache_lock
C32_Witness ==
    /\ \E t, u \in Threads :
         /\ tpc[t] = "get_lock" /\ manager_lock = u /\ t # u
    /\ cache_lock = "transport"

----------------------------------------------------------------------------
(* Further claims about the worker, checked under Spec *)

C34_ActiveSetFixed ==
    /\ [](active_tasks # {})
    /\ [][active_tasks' = active_tasks]_vars
    /\ [](sent.method = "publish_retained" =>
            /\ Range(sent.payload.capabilities) = active_tasks
            /\ Len(sent.payload.capabilities) = Cardinality(active_tasks))
    /\ [](pc = "run_once" =>
            /\ Range(task_types) = active_tasks
            /\ Len(task_types) = Cardinality(active_tasks))

\* a run_once call restricted to the one type of a worker that has
\* published, busy, with that one capability
C34_Witness ==
    /\ pc = "run_once" /\ active_tasks = {"convert"}
    /\ task_types = <<"convert">>
    /\ sent.method = "publish_retained"
    /\ sent.payload.capabilities = <<"convert">>
    /\ outcome = "true"

----------------------------------------------------------------------------
(* Claims about the aggregator fed by this repository's workers, checked   *)
(* under SpecFleet                                                         *)

\* result[T], or 0 when the result has no key T
Reported(result, T) == IF T \in DOMAIN result THEN result[T] ELSE 0

\* C35: every cache entry has idle_count 0 or 1, and for every task type T
\* the idle count reported for T is the number of cached workers that
\* advertise T with idle_count 1, which is at most the worker count
\* reported for T, the number of cached workers that advertise T.
C35_IdleAtMostWorkers ==
    LET idle == GetCachedCapabilities(capabilities_cache)
        workers == GetWorkerCountByCapability(capabilities_cache)
    IN /\ \A w \in DOMAIN capabilities_cache :
            capabilities_cache[w].idle_count \in {0, 1}
       /\ \A T \in TaskTypes :
            LET having == {w \in DOMAIN capabilities_cache :
                                Advertises(capabilities_cache, w, T)}
            IN /\ Reported(idle, T) =
                    Cardinality({w \in having : capabilities_cache[w].idle_count = 1})
               /\ Reported(workers, T) = Cardinality(having)
               /\ Reported(idle, T) <= Reported(workers, T)
               /\ (T \in DOMAIN idle) <=> (T \in DOMAIN workers)

\* two cached workers both advertise resize, one of them idle
C35_Witness ==
    /\ DOMAIN capabilities_cache = WorkerIds
    /\ GetCachedCapabilities(capabilities_cache)["resize"] = 1
    /\ GetWorkerCountByCapability(capabilities_cache)["resize"] = 2
    /\ "convert" \in DOMAIN GetCachedCapabilities(capabilities_cache)

----------------------------------------------------------------------------
(* Further claims about the worker and the aggregator together, checked    *)
(* under Spec                                                              *)

\* C36: whatever the configured prefix, when the last message delivered to
\* on_message is an advertisement the worker published on its topic, the
\* call stored it, under the worker's id, and did not discard it as a
\* malformed topic.
C36_AdvertisementAccepted ==
    (Called /\ last_call.payload.kind = "json"
            /\ last_call.topic = AdvertiserTopic) =>
        /\ last_call.outcome = "stored"
        /\ WorkerId \in DOMAIN capabilities_cache
        /\ capabilities_cache[WorkerId] = Stored(last_call.payload)

----------------------------------------------------------------------------
(* Further claims about the aggregator, checked under SpecAgg *)

\* on_message called once more with the arguments of the last call
Redelivered == OnMessage(capabilities_cache, last_call.topic, last_call.payload)

\* C37: after any on_message call, calling it again with the same topic
\* and payload ends the same way and leaves the cache, and with it the
\* result of both queries, as it is: a duplicate delivery changes nothing,
\* for an advertisement, an empty payload and a malformed one alike.
C37_DuplicateDeliveryIdempotent ==
    Called =>
        /\ Redelivered.cache = capabilities_cache
        /\ Redelivered.outcome = last_call.outcome
        /\ GetCachedCapabilities(Redelivered.cache)
             = GetCachedCapabilities(capabilities_cache)
        /\ GetWorkerCountByCapability(Redelivered.cache)
             = GetWorkerCountByCapability(capabilities_cache)

\* the same advertisement of an idle worker has been delivered to a cache
\* that already held it, next to another worker's entry
C37_Witness ==
    /\ last_call.outcome = "stored"
    /\ pre_cache = capabilities_cache
    /\ DOMAIN capabilities_cache = WorkerIds
    /\ capabilities_cache[Addressed] = Stored(last_call.payload)
    /\ last_call.payload.idle_count = 1

\* C38: after any on_message call, every worker other than the one named
\* by the topic's final segment has the entry it had before the call, or
\* none if it had none, whether the payload was an advertisement, empty or
\* malformed.
C38_OtherEntriesUntouched ==
    Called =>
        \A w \in (DOMAIN capabilities_cache \cup DOMAIN pre_cache) \ {Addressed} :
            /\ w \in DOMAIN capabilities_cache
            /\ w \in DOMAIN pre_cache
            /\ capabilities_cache[w] = pre_cache[w]

\* the empty payload on w1's topic removed w1's entry and left w2's
C38_Witness ==
    /\ last_call.outcome = "removed" /\ Addressed = "w1"
    /\ DOMAIN pre_cache = WorkerIds
    /\ DOMAIN capabilities_cache = {"w2"}
    /\ capabilities_cache["w2"].capabilities = <<"resize", "convert">>

-----------------------------------------------------------------------------
(* Claims about the constructor's resolution, checked under SpecCtor *)

-----------------------------------------------------------------------------
(* Claims about the signal handler's frame, checked under Spec *)

\* what the main loop, the heartbeat task and the advertiser read besides
\* the shutdown flag: the idle flag, the active set, the heartbeat task and
\* its cancellation, the advertiser's transport, and what the broker holds
loopState == <<is_idle, active_tasks, heartbeat_task, cancel_called,
               broadcaster, will, retained, queue>>

\* C40: a call of the signal handler changes nothing that the main loop,
\* the heartbeat task or the advertiser read, apart from setting
\* shutdown_event.
C40_HandlerTouchesOnlyFlag ==
    [][shutdown_signal_count' # shutdown_signal_count
           => UNCHANGED loopState]_vars
====
